---- MODULE Spec2Model ----
(***************************************************************************)
(* A model of gdxpds/gdx.py: the GdxFile container (an ordered, name-keyed *)
(* collection of GdxSymbol objects) and the GdxSymbol objects themselves.  *)
(* The gdxcc session is the environment: what it returns is an input of    *)
(* the actions, and the calls made to it are recorded.                     *)
(*                                                                         *)
(* Python values are modelled as follows.  None is the string "None" in a  *)
(* string-valued field and NoneInt in an integer-valued field.  A table    *)
(* (pandas DataFrame) is its column labels and its rows; a row is a        *)
(* sequence of cells, a cell is <<"str", s>>, <<"num", n>> or              *)
(* <<"bool", b>>.  An exception is the name of its class; "none" when the  *)
(* call returned normally.                                                 *)
(***************************************************************************)
EXTENDS Integers, Sequences, FiniteSets, TLC

VARIABLES
    file,      \* the GdxFile object
    syms,      \* the GdxSymbol objects, by object identity
    pre,       \* file and syms as they were before the last call
    last,      \* the last call made on the objects and how it ended
    steps      \* number of calls made so far

vars == <<file, syms, pre, last, steps>>

\* ------------------------------------------------------------------ bounds

\* Number of calls in a run that starts from a newly constructed GdxFile.
MaxOps == 3

\* Number of calls in a run that starts from a GdxFile that was read.
MaxSymOps == 2

\* Largest integer dimensionality a caller passes to the dims setter.
MaxDims == 2

\* Number of calls in a run that deletes symbols from a GdxFile that was read
\* and loads them.
MaxLoadOps == 4

\* ------------------------------------------------------------ Python values

None == "None"

\* The optional gdx2py module is taken not to be installed: the import fails
\* and the flag keeps its initial value.
HAVE_GDX2PY == FALSE

\* None (or a never-assigned attribute) in an integer-valued field.
NoneInt == -1

\* An element that is not a string (an int used as a label).
IntLabel == "<int>"

string_types(x) == x # IntLabel

Min(a, b) == IF a < b THEN a ELSE b
Max(a, b) == IF a > b THEN a ELSE b

\* seq[:n] of Python.
PyPrefix(seq, n) ==
    LET k == IF n >= 0 THEN Min(n, Len(seq)) ELSE Max(0, Len(seq) + n)
    IN  SubSeq(seq, 1, k)

\* list.insert(key, x) of Python: a negative key counts from the end and is
\* clamped at the start, a key past the end appends.
PyListInsert(seq, key, x) ==
    LET k0 == IF key < 0 THEN Max(0, Len(seq) + key) ELSE Min(key, Len(seq))
    IN  SubSeq(seq, 1, k0) \o <<x>> \o SubSeq(seq, k0 + 1, Len(seq))

\* ['*'] * n
Stars(n) == [i \in 1..Max(n, 0) |-> "*"]

\* ------------------------------------------------------------- enumerations

GamsDataType == {"Set", "Parameter", "Variable", "Equation", "Alias"}

GamsVariableType ==
    {"Unknown", "Binary", "Integer", "Positive", "Negative", "Free",
     "SOS1", "SOS2", "Semicont", "Semiint"}

\* The value channels, in the order of their indices in a record's value array.
GamsValueType == <<"Level", "Marginal", "Lower", "Upper", "Scale">>

\* (column name, index into the value array) pairs of a data type.
GAMS_VALUE_COLS_MAP(data_type) ==
    IF data_type \in {"Variable", "Equation"}
    THEN [i \in 1..Len(GamsValueType) |-> <<GamsValueType[i], i>>]
    ELSE << <<"Value", 1>> >>

value_cols(sym) == GAMS_VALUE_COLS_MAP(sym.data_type)

value_col_names(sym) == [i \in 1..Len(value_cols(sym)) |-> value_cols(sym)[i][1]]

\* -------------------------------------------------------------- GdxSymbol

\* An identity no object has been constructed under yet.
NoSymbol ==
    [live |-> FALSE, name |-> None, description |-> "", loaded |-> FALSE,
     data_type |-> "Set", variable_type |-> None, dims |-> <<>>,
     columns |-> <<>>, rows |-> <<>>, file |-> None, index |-> NoneInt,
     num_records |-> NoneInt]

\* Result of a call on one symbol.
SymResult(sym, err, warn, calls) ==
    [sym |-> sym, err |-> err, warn |-> warn, calls |-> calls]

num_dims(sym) == Len(sym.dims)

num_records(sym) == IF sym.loaded THEN Len(sym.rows) ELSE sym.num_records

_init_dataframe(sym) ==
    [sym EXCEPT !.columns = sym.dims \o value_col_names(sym), !.rows = <<>>]

\* variable_type setter that falls back to Free on every invalid value.
set_variable_type_free(sym, value) ==
    IF sym.data_type = "Variable"
    THEN [sym EXCEPT !.variable_type =
                         IF value \in GamsVariableType THEN value ELSE "Free"]
    ELSE [sym EXCEPT !.variable_type = None]

\* variable_type setter; it never raises.
set_variable_type(sym, value) ==
    IF sym.data_type = "Variable"
    THEN IF value \in GamsVariableType
         THEN [sym EXCEPT !.variable_type = value]
         ELSE IF sym.variable_type \in GamsVariableType
              THEN sym
              ELSE [sym EXCEPT !.variable_type = "Free"]
    ELSE [sym EXCEPT !.variable_type = None]

\* data_type setter that leaves the variable subtype alone.
set_data_type_keepsubtype(sym, value) ==
    IF ~sym.loaded \/ num_records(sym) > 0
    THEN SymResult(sym, "Error", FALSE, <<>>)
    ELSE IF value \notin GamsDataType
         THEN SymResult(sym, "ValueError", FALSE, <<>>)
         ELSE SymResult(_init_dataframe([sym EXCEPT !.data_type = value]),
                        "none", FALSE, <<>>)

\* data_type setter that forgets the record count.
set_data_type_norecords(sym, value) ==
    IF ~sym.loaded
    THEN SymResult(sym, "Error", FALSE, <<>>)
    ELSE IF value \notin GamsDataType
         THEN SymResult(sym, "ValueError", FALSE, <<>>)
         ELSE SymResult(
                  _init_dataframe(
                      set_variable_type([sym EXCEPT !.data_type = value], None)),
                  "none", FALSE, <<>>)

\* data_type setter.
set_data_type(sym, value) ==
    IF ~sym.loaded \/ num_records(sym) > 0
    THEN SymResult(sym, "Error", FALSE, <<>>)
    ELSE IF value \notin GamsDataType
         THEN SymResult(sym, "ValueError", FALSE, <<>>)
         ELSE SymResult(
                  _init_dataframe(
                      set_variable_type([sym EXCEPT !.data_type = value], None)),
                  "none", FALSE, <<>>)

\* dims setter.  value is [kind, n, labels]: an int n (kind "int"), a list of
\* labels (kind "list"), or something that is neither (kind "index" for a
\* pandas Index, "other").
set_dims(sym, value) ==
    LET hasData == sym.loaded /\ num_records(sym) > 0
        warn1 == hasData /\ (value.kind # "list" \/ Len(value.labels) # num_dims(sym))
    IN  IF value.kind = "int"
        THEN SymResult(_init_dataframe([sym EXCEPT !.dims = Stars(value.n)]),
                       "none", warn1, <<>>)
        ELSE IF value.kind # "list"
        THEN SymResult(sym, "Error", warn1, <<>>)
        ELSE IF \E i \in 1..Len(value.labels) : ~string_types(value.labels[i])
        THEN SymResult(sym, "Error", warn1, <<>>)
        ELSE LET warn2 == num_dims(sym) > 0 /\ num_dims(sym) # Len(value.labels)
                 s1 == [sym EXCEPT !.dims = value.labels]
                 cols == s1.dims \o value_col_names(s1)
             IN  IF hasData
                 THEN IF Len(cols) = Len(s1.columns)
                      THEN SymResult([s1 EXCEPT !.columns = cols], "none",
                                     warn1 \/ warn2, <<>>)
                      ELSE SymResult(s1, "ValueError", warn1 \/ warn2, <<>>)
                 ELSE SymResult(_init_dataframe(s1), "none", warn1 \/ warn2, <<>>)

IntDims(n) == [kind |-> "int", n |-> n, labels |-> <<>>]
ListDims(labels) == [kind |-> "list", n |-> 0, labels |-> labels]
OtherDims(kind) == [kind |-> kind, n |-> 0, labels |-> <<>>]

\* The width of the widest of some rows.
Widest(rows) ==
    IF rows = <<>> THEN 0
    ELSE CHOOSE w \in {Len(rows[i]) : i \in 1..Len(rows)} :
             \A i \in 1..Len(rows) : Len(rows[i]) <= w

\* Rows filled up with None cells to width n.
Padded(rows, n) ==
    [i \in 1..Len(rows) |->
        rows[i] \o [j \in 1..(n - Len(rows[i])) |-> <<"none", None>>]]

\* dataframe setter.  data is [kind, columns, rows]: a DataFrame with the
\* given column labels (kind "frame") or a list of rows (kind "rows").
set_dataframe(sym, data) ==
    IF data.kind = "frame"
    THEN LET nd == Len(data.columns) - Len(value_cols(sym))
             dim_cols == PyPrefix(data.columns, nd)
             replace_dims == \A i \in 1..Len(dim_cols) : string_types(dim_cols[i])
         IN  IF replace_dims
             THEN set_dims(sym, OtherDims("index"))
             ELSE LET r == IF nd # num_dims(sym)
                           THEN set_dims(sym, IntDims(nd))
                           ELSE SymResult(sym, "none", FALSE, <<>>)
                  IN  \* copy.deepcopy: the module never imports copy
                      SymResult(r.sym, "NameError", r.warn, <<>>)
    ELSE LET cols == sym.dims \o value_col_names(sym)
         IN  \* pandas pads a short row with None and raises when the widest
             \* row has another width than there are columns
             IF data.rows = <<>> \/ Widest(data.rows) = Len(cols)
             THEN SymResult([sym EXCEPT !.columns = cols,
                                       !.rows = Padded(data.rows, Len(cols))],
                            "none", FALSE, <<>>)
             ELSE SymResult(sym, "ValueError", FALSE, <<>>)

RowsData(rows) == [kind |-> "rows", columns |-> <<>>, rows |-> rows]
FrameData(columns) == [kind |-> "frame", columns |-> columns, rows |-> <<>>]

\* ------------------------------------------------------------ the session

\* One call made to the gdxcc session (or to gdx2py, or to a symbol's write):
\* the function, the symbol index passed (NoneInt if none) and, for a
\* symbol's write, the identity of the symbol.
Call(fn, i) == [f |-> fn, i |-> i, s |-> None]
WriteCall(s) == [f |-> "GdxSymbol.write", i |-> NoneInt, s |-> s]

\* The symbols of the GDX file the session reads, by index 1..symbol_count:
\* what gdxSymbolInfo, gdxSymbolInfoX, gdxSymbolGetDomainX and the record
\* stream return for each.  The streams are neither sorted nor free of
\* repeated keys, so that reordering or deduplication would show.
GdxContent ==
    << [name |-> "a", dims |-> 1, data_type |-> "Variable", userinfo |-> "Binary",
        description |-> "first", domain |-> <<"i">>,
        records |-> << [elements |-> <<"k1">>, values |-> <<1, 2, 3, 4, 5>>] >>],
       [name |-> "b", dims |-> 1, data_type |-> "Set", userinfo |-> "Unknown",
        description |-> "second", domain |-> <<"i">>,
        records |-> << [elements |-> <<"k2">>, values |-> <<0, 0, 0, 0, 0>>],
                       [elements |-> <<"k1">>, values |-> <<7, 0, 0, 0, 0>>] >>],
       [name |-> "c", dims |-> 1, data_type |-> "Variable", userinfo |-> "Positive",
        description |-> "third", domain |-> <<"j">>,
        records |-> << [elements |-> <<"k2">>, values |-> <<5, 6, 7, 8, 9>>],
                       [elements |-> <<"k2">>, values |-> <<5, 6, 7, 8, 9>>],
                       [elements |-> <<"k1">>, values |-> <<1, 2, 3, 4, 5>>] >>] >>

\* The universal set, at index 0 of the file.
UniversalInfo ==
    [name |-> "*", dims |-> 1, data_type |-> "Set", userinfo |-> "Unknown",
     description |-> "", domain |-> <<"*">>, records |-> <<>>]

Content(index) == IF index = 0 THEN UniversalInfo ELSE GdxContent[index]

symbol_count == Len(GdxContent)

\* The record stream of the symbol at a file index.
Records(index) == IF index \in 1..symbol_count THEN GdxContent[index].records ELSE <<>>

\* A malformed stream: its last record carries one domain value too many.
Malformed(stream) ==
    IF stream = <<>> THEN stream
    ELSE [stream EXCEPT ![Len(stream)].elements = @ \o <<"k9">>]

\* What the session answers to the extended queries on the symbol at `index`,
\* with the failure `fail` = [at, i] injected.
SessionInfo(index, fail) ==
    [okX |-> fail # [at |-> "infox", i |-> index],
     okDom |-> fail # [at |-> "domain", i |-> index],
     records |-> Len(Records(index)),
     userinfo |-> Content(index).userinfo,
     description |-> Content(index).description,
     domain |-> Content(index).domain]

NoFail == [at |-> "none", i |-> 0]

\* The truth of symbol.file as a test against None.
bool_file_notnone(f, fileref) == fileref # None

\* bool(symbol.file): a GdxFile is a sequence, so an empty one is false.
bool_file(f, fileref) == fileref # None /\ Len(f.symbols) > 0

\* GdxSymbol.__init__.  On an error no object comes into being.
GdxSymbol(f, name, data_type, dims, fileref, index, variable_type, info) ==
    LET s0 == set_variable_type(
                  [NoSymbol EXCEPT !.live = TRUE, !.name = name,
                                   !.data_type = data_type], variable_type)
    IN  IF dims.kind # "int"
        THEN \* the list branch of the dims setter reads self._dims before
             \* it was ever assigned
             SymResult(NoSymbol,
                       IF dims.kind = "list" /\
                          \A i \in 1..Len(dims.labels) : string_types(dims.labels[i])
                       THEN "AttributeError" ELSE "Error", FALSE, <<>>)
        ELSE
        LET s1 == [set_dims(s0, dims).sym EXCEPT !.file = fileref, !.index = index]
        IN  IF ~bool_file(f, fileref)
            THEN SymResult([s1 EXCEPT !.loaded = TRUE], "none", FALSE, <<>>)
            ELSE
            LET callsX == <<Call("gdxSymbolInfoX", index)>>
                s2 == [s1 EXCEPT !.num_records = info.records]
                s3 == IF data_type = "Variable"
                      THEN set_variable_type(s2, info.userinfo) ELSE s2
                s4 == [s3 EXCEPT !.description = info.description]
                callsD == callsX \o <<Call("gdxSymbolGetDomainX", index)>>
            IN  IF ~info.okX
                THEN SymResult(NoSymbol, "GdxError", FALSE, callsX)
                ELSE IF index <= 0
                THEN SymResult(s4, "none", FALSE, callsX)
                ELSE IF ~info.okDom
                THEN SymResult(NoSymbol, "GdxError", FALSE, callsD)
                ELSE IF Len(info.domain) # num_dims(s4)
                THEN SymResult(NoSymbol, "AssertionError", FALSE, callsD)
                ELSE SymResult(set_dims(s4, ListDims(info.domain)).sym,
                               "none", FALSE, callsD)

\* The row of a record with its streamed values in every value position.
StreamRow_payload(sym, rec) ==
    [i \in 1..Len(rec.elements) |-> <<"str", rec.elements[i]>>] \o
    [i \in 1..Len(value_cols(sym)) |-> <<"num", rec.values[value_cols(sym)[i][2]]>>]

\* The row load() builds from one streamed record.
StreamRow(sym, rec) ==
    LET vc == value_cols(sym)
        cells == [i \in 1..Len(rec.elements) |-> <<"str", rec.elements[i]>>] \o
                 [i \in 1..Len(vc) |-> <<"num", rec.values[vc[i][2]]>>]
    IN  IF sym.data_type = "Set"
        THEN [cells EXCEPT ![Len(cells)] = <<"bool", TRUE>>]
        ELSE cells

\* load() data that keeps one row per distinct record.
stream_data_dedup(sym, stream) ==
    LET keep == SelectSeq([i \in 1..Len(stream) |-> i],
                          LAMBDA i : \A j \in 1..(i - 1) : stream[j] # stream[i])
    IN  [k \in 1..Len(keep) |-> StreamRow(sym, stream[keep[k]])]

\* The list load() builds from the stream: one row per record, in order.
stream_data(sym, stream) == [i \in 1..Len(stream) |-> StreamRow(sym, stream[i])]

\* GdxSymbol.load past its first check.  `stream` is what the session streams
\* for the symbol; gdx2py.par2list is taken to return the same records.
load_unloaded(f, sym, stream) ==
    IF ~bool_file(f, sym.file)
    THEN SymResult(sym, "Error", FALSE, <<>>)
    ELSE IF sym.index = NoneInt \/ sym.index = 0
    THEN SymResult(sym, "Error", FALSE, <<>>)
    ELSE
    LET gdx2py == sym.data_type = "Parameter" /\ HAVE_GDX2PY
        calls == IF gdx2py
                 THEN <<Call("gdx2py.par2list", NoneInt)>>
                 ELSE <<Call("gdxDataReadStrStart", sym.index)>> \o
                      [i \in 1..Len(stream) |-> Call("gdxDataReadStr", NoneInt)]
        r == set_dataframe(sym, RowsData(stream_data(sym, stream)))
    IN  IF r.err # "none"
        THEN SymResult(sym, r.err, FALSE, calls)
        ELSE SymResult([r.sym EXCEPT !.loaded = TRUE], "none", FALSE, calls)

\* load() without its first check.
load_again(f, sym, stream) == load_unloaded(f, sym, stream)

\* GdxSymbol.load
load(f, sym, stream) ==
    IF sym.loaded
    THEN SymResult(sym, "none", FALSE, <<>>)
    ELSE load_unloaded(f, sym, stream)

\* ---------------------------------------------------------------- GdxFile

\* A GdxFile before read: __init__.
NewFile(lazy_load) ==
    [lazy_load |-> lazy_load, version |-> None, producer |-> None,
     filename |-> None, universal_set |-> None, symbols |-> <<>>]

\* Result of a call on the file: the file, the symbols, how the call ended,
\* and the calls it made.
FileResult(f, ss, err, calls) == [file |-> f, syms |-> ss, err |-> err, calls |-> calls]

\* len(self)
len(f) == Len(f.symbols)

\* empty that never notices the symbols.
empty_always(f) == TRUE

empty(f) == len(f) = 0

\* self._symbols[k] = v on an OrderedDict given as a sequence of entries: an
\* existing key keeps its place, a new one goes to the end.
DictSet(d, k, v) ==
    IF \E i \in 1..Len(d) : d[i].key = k
    THEN [i \in 1..Len(d) |-> IF d[i].key = k THEN [key |-> k, sym |-> v] ELSE d[i]]
    ELSE Append(d, [key |-> k, sym |-> v])

\* OrderedDict(data) for a list of (key, value) pairs.
RECURSIVE OrderedDict(_)
OrderedDict(data) ==
    IF data = <<>> THEN <<>>
    ELSE LET x == data[Len(data)]
         IN  DictSet(OrderedDict(SubSeq(data, 1, Len(data) - 1)), x.key, x.sym)

\* The symbols `for symbol in self` yields: self[0], self[1], ...
Iter(f) == [i \in 1..len(f) |-> f.symbols[i].sym]

\* _name_key for an integer key; NoneInt stands for the IndexError of
\* list(keys)[key].  The result is a 1-based position.
_name_key(f, key) ==
    IF key >= 0 /\ key < len(f) THEN key + 1
    ELSE IF key < 0 /\ key >= -len(f) THEN len(f) + key + 1
    ELSE NoneInt

\* _check_insert_setitem, for a GdxSymbol value and an integer key.
_check_insert_setitem(f, key) == IF key > len(f) THEN "Error" ELSE "none"

\* _fixup_name_keys: the comprehension unpacks each key of the dict (a string)
\* into two names, so on a file that holds a symbol it raises: AttributeError
\* on a two-character key (str has no .name), ValueError on any other.
_fixup_name_keys(f) ==
    IF empty(f) THEN [symbols |-> <<>>, err |-> "none"]
    ELSE [symbols |-> f.symbols,
          err |-> IF Len(f.symbols[1].key) = 2 THEN "AttributeError" ELSE "ValueError"]

\* GdxFile.insert (append is insert at len(self)).
insert(f, ss, key, v) ==
    IF _check_insert_setitem(f, key) # "none"
    THEN FileResult(f, ss, _check_insert_setitem(f, key), <<>>)
    ELSE LET ss1 == [ss EXCEPT ![v].file = "file"]
             data == [i \in 1..len(f) |->
                         [key |-> ss1[Iter(f)[i]].name, sym |-> Iter(f)[i]]]
             data2 == PyListInsert(data, key, [key |-> ss1[v].name, sym |-> v])
         IN  FileResult([f EXCEPT !.symbols = OrderedDict(data2)], ss1, "none", <<>>)

\* GdxFile.__setitem__
__setitem__(f, ss, key, v) ==
    IF _check_insert_setitem(f, key) # "none"
    THEN FileResult(f, ss, _check_insert_setitem(f, key), <<>>)
    ELSE LET ss1 == [ss EXCEPT ![v].file = "file"]
         IN  IF key < len(f)
             THEN IF _name_key(f, key) = NoneInt
                  THEN FileResult(f, ss1, "IndexError", <<>>)
                  ELSE LET f1 == [f EXCEPT !.symbols[_name_key(f, key)].sym = v]
                           fix == _fixup_name_keys(f1)
                       IN  FileResult([f1 EXCEPT !.symbols = fix.symbols], ss1,
                                      fix.err, <<>>)
             ELSE FileResult([f EXCEPT !.symbols = DictSet(@, ss1[v].name, v)],
                             ss1, "none", <<>>)

\* GdxFile.__delitem__ with an integer key.
__delitem__(f, ss, key) ==
    LET p == _name_key(f, key)
    IN  IF p = NoneInt
        THEN FileResult(f, ss, "IndexError", <<>>)
        ELSE FileResult(
                 [f EXCEPT !.symbols = SubSeq(@, 1, p - 1) \o SubSeq(@, p + 1, Len(@))],
                 ss, "none", <<>>)

\* GdxFile.__delitem__ with a name key.
delitem_name(f, ss, name) ==
    IF \E i \in 1..len(f) : f.symbols[i].key = name
    THEN FileResult([f EXCEPT !.symbols = SelectSeq(@, LAMBDA e : e.key # name)],
                    ss, "none", <<>>)
    ELSE FileResult(f, ss, "KeyError", <<>>)

\* GdxSymbol.name setter.
set_name(f, ss, s, value) ==
    LET ss1 == [ss EXCEPT ![s].name = value]
    IN  IF bool_file(f, ss1[s].file)
        THEN FileResult([f EXCEPT !.symbols = _fixup_name_keys(f).symbols], ss1,
                        _fixup_name_keys(f).err, <<>>)
        ELSE FileResult(f, ss1, "none", <<>>)

\* The identities of the objects read() constructs.
UniversalId == "u"
ReadId(index) == <<"f1", "f2", "f3">>[index]

\* The loop of read() over the symbols of the file, from index i on.
RECURSIVE read_symbols(_, _, _, _, _)
read_symbols(f, ss, calls, i, fail) ==
    IF i > symbol_count
    THEN FileResult(f, ss, "none", calls)
    ELSE LET c1 == calls \o <<Call("gdxSymbolInfo", i)>>
             d == GdxContent[i]
             r == GdxSymbol(f, d.name, d.data_type, IntDims(d.dims), "file", i,
                            None, SessionInfo(i, fail))
             ins == insert(f, [ss EXCEPT ![ReadId(i)] = r.sym], len(f), ReadId(i))
         IN  IF fail = [at |-> "info", i |-> i]
             THEN FileResult(f, ss, "GdxError", c1)
             ELSE IF r.err # "none"
             THEN FileResult(f, ss, r.err, c1 \o r.calls)
             ELSE read_symbols(ins.file, ins.syms, c1 \o r.calls, i + 1, fail)

\* The eager loads of read(), from position p of the file on.
RECURSIVE load_all(_, _, _, _, _)
load_all(f, ss, calls, p, fail) ==
    IF p > len(f)
    THEN FileResult(f, ss, "none", calls)
    ELSE LET s == Iter(f)[p]
             stream == IF fail = [at |-> "load", i |-> ss[s].index]
                       THEN Malformed(Records(ss[s].index))
                       ELSE Records(ss[s].index)
             r == load(f, ss[s], stream)
         IN  IF r.err # "none"
             THEN FileResult(f, ss, r.err, calls \o r.calls)
             ELSE load_all(f, [ss EXCEPT ![s] = r.sym], calls \o r.calls, p + 1, fail)

\* The values gdxFileVersion hands back.
FileVersion == [version |-> "V7", producer |-> "GAMS"]

\* GdxFile.read.  `fail` = [at, i] is the session call that fails, if any;
\* `junk` is whether a failing gdxFileVersion hands back empty strings.
read(f, ss, filename, fail, junk) ==
    IF ~empty(f)
    THEN FileResult(f, ss, "Error", <<>>)
    ELSE
    LET c1 == <<Call("gdxOpenRead", NoneInt)>>
        f1 == [f EXCEPT !.filename = filename]
        c2 == c1 \o <<Call("gdxFileVersion", NoneInt)>>
        f2 == IF fail.at = "version" /\ junk
              THEN [f1 EXCEPT !.version = "", !.producer = ""]
              ELSE [f1 EXCEPT !.version = FileVersion.version,
                              !.producer = FileVersion.producer]
        c3 == c2 \o <<Call("gdxSystemInfo", NoneInt), Call("gdxSymbolInfo", 0)>>
        u == GdxSymbol(f2, UniversalInfo.name, UniversalInfo.data_type,
                       IntDims(UniversalInfo.dims), "file", 0, None,
                       SessionInfo(0, fail))
        f3 == [f2 EXCEPT !.universal_set = UniversalId]
        ss3 == [ss EXCEPT ![UniversalId] = u.sym]
        r == read_symbols(f3, ss3, c3 \o u.calls, 1, fail)
    IN  IF fail.at = "open" THEN FileResult(f, ss, "GdxError", c1)
        ELSE IF fail.at = "version" THEN FileResult(f2, ss, "NameError", c2)
        ELSE IF fail = [at |-> "info", i |-> 0] THEN FileResult(f2, ss, "GdxError", c3)
        ELSE IF u.err # "none" THEN FileResult(f2, ss, u.err, c3 \o u.calls)
        ELSE IF r.err # "none" \/ f.lazy_load THEN r
        ELSE load_all(r.file, r.syms, r.calls, 1, fail)

\* GdxSymbol.write: the method has no statement, so it makes no call to the
\* session and changes nothing of the symbol.
symbol_write(sym) == SymResult(sym, "none", FALSE, <<>>)

\* The loops of write() over symbols: each symbol's write() is invoked, and
\* makes the session calls of symbol_write.
RECURSIVE write_symbols(_, _)
write_symbols(ss, ids) ==
    IF ids = <<>> THEN <<>>
    ELSE <<WriteCall(Head(ids))>> \o symbol_write(ss[Head(ids)]).calls \o
         write_symbols(ss, Tail(ids))

\* The loaded check looking at the first symbol only.
all_loaded_first(f, ss) == len(f) = 0 \/ ss[f.symbols[1].sym].loaded

\* Whether every contained symbol is loaded: the first loop of write().
all_loaded(f, ss) == \A i \in 1..len(f) : ss[Iter(f)[i]].loaded

\* GdxFile.write.  `openOk` is whether gdxOpenWrite reports success.
write(f, ss, filename, openOk) ==
    IF ~all_loaded(f, ss)
    THEN FileResult(f, ss, "Error", <<>>)
    ELSE
    LET c1 == <<Call("gdxOpenWrite", NoneInt)>>
        f1 == [f EXCEPT !.filename = filename]
    IN  IF ~openOk THEN FileResult(f, ss, "GdxError", c1)
        ELSE IF f.universal_set = None
        THEN FileResult(f1, ss, "AttributeError", c1)
        ELSE FileResult(f1, ss, "none",
                        c1 \o write_symbols(ss, <<f.universal_set>>) \o
                        write_symbols(ss, Iter(f)) \o
                        <<Call("gdxClose", NoneInt)>>)

\* ------------------------------------------------------------------ inputs

\* Object identities: the universal set, the symbols read() constructs, and
\* the symbols the caller constructs.
NewIds == <<"n1", "n2">>

SymIds == {UniversalId} \cup {ReadId(i) : i \in 1..symbol_count} \cup
          {NewIds[i] : i \in 1..Len(NewIds)}

\* The symbols a caller holds and passes to the operations.
Held(ss) == {s \in SymIds \ {UniversalId} : ss[s].live}

Paths == {"in.gdx", "out.gdx"}

\* Names the caller gives: one the file also uses, one it does not.
NameInputs == {"a", "n"}

\* (data_type, variable_type) pairs the caller constructs symbols with.
NewTypes == {<<"Parameter", None>>, <<"Variable", None>>, <<"Variable", "Binary">>}

FailPoints ==
    {NoFail, [at |-> "open", i |-> 0], [at |-> "version", i |-> 0]} \cup
    {[at |-> "info", i |-> k] : k \in 0..symbol_count} \cup
    {[at |-> k, i |-> j] : k \in {"infox", "domain", "load"}, j \in 2..symbol_count}

KeyInputs(f) == {-(len(f) + 1), -1, 0, 1, len(f), len(f) + 1}

DimsInputs ==
    {IntDims(n) : n \in 0..MaxDims} \cup
    {ListDims(l) : l \in {<<"i">>, <<"i", "j">>, <<IntLabel>>}} \cup
    {OtherDims("other")}

DataTypeInputs == {"Set", "Parameter", "Variable", "Invalid"}

VariableTypeInputs == {None, "Binary", "Invalid"}

DataInputs ==
    {RowsData(r) : r \in
        {<<>>,
         << <<<<"str", "k1">>, <<"num", 5>>>> >>,
         << <<<<"str", "k2">>, <<"num", 7>>>>, <<<<"str", "k1">>, <<"num", 5>>>> >>,
         << <<<<"str", "k1">>, <<"str", "k2">>, <<"num", 5>>>> >>}} \cup
    {FrameData(c) : c \in {<<"i", "Value">>, <<IntLabel, "Value">>,
                           <<IntLabel, IntLabel, "Value">>}}

\* ----------------------------------------------------------------- actions

NoSyms == [s \in SymIds |-> NoSymbol]

\* A call on the file ends with result r.
FileStep(op, s, arg, r) ==
    /\ steps > 0
    /\ steps' = steps - 1
    /\ pre' = [file |-> file, syms |-> syms]
    /\ file' = r.file
    /\ syms' = r.syms
    /\ last' = [op |-> op, sym |-> s, arg |-> arg, err |-> r.err, warn |-> FALSE,
                calls |-> r.calls]

\* A call on symbol s ends with result r.
SymStep(op, s, arg, r) ==
    /\ steps > 0
    /\ steps' = steps - 1
    /\ pre' = [file |-> file, syms |-> syms]
    /\ file' = file
    /\ syms' = [syms EXCEPT ![s] = r.sym]
    /\ last' = [op |-> op, sym |-> s, arg |-> arg, err |-> r.err, warn |-> r.warn,
                calls |-> r.calls]

\* GdxSymbol(name, data_type, dims=dims, variable_type=variable_type)
NewSymbol ==
    \E i \in 1..Len(NewIds), name \in NameInputs, t \in NewTypes,
       dims \in {IntDims(1), ListDims(<<"i">>)} :
        /\ ~syms[NewIds[i]].live
        /\ \A j \in 1..(i - 1) : syms[NewIds[j]].live
        /\ SymStep("new", NewIds[i], [name |-> name, dims |-> dims],
                   GdxSymbol(file, name, t[1], dims, None, NoneInt, t[2],
                             SessionInfo(0, NoFail)))

\* file.read(path)
Read ==
    \E path \in Paths, fail \in FailPoints :
        \E junk \in (IF fail.at = "version" THEN BOOLEAN ELSE {FALSE}) :
            FileStep("read", None, [path |-> path, fail |-> fail],
                     read(file, syms, path, fail, junk))

\* file.write(path)
Write ==
    \E path \in Paths, openOk \in BOOLEAN :
        FileStep("write", None, [path |-> path, openOk |-> openOk],
                 write(file, syms, path, openOk))

\* file.insert(key, s)
Insert ==
    \E s \in Held(syms), key \in KeyInputs(file) :
        FileStep("insert", s, [key |-> key], insert(file, syms, key, s))

\* file[key] = s
SetItem ==
    \E s \in Held(syms), key \in KeyInputs(file) :
        FileStep("setitem", s, [key |-> key], __setitem__(file, syms, key, s))

\* del file[key]
DelItem ==
    \E key \in KeyInputs(file) :
        FileStep("delitem", None, [key |-> key], __delitem__(file, syms, key))

\* del file[name]
DelName ==
    \E name \in NameInputs \cup {"b"} :
        FileStep("delname", None, [name |-> name], delitem_name(file, syms, name))

\* s.name = name
Rename ==
    \E s \in Held(syms), name \in NameInputs :
        FileStep("rename", s, [name |-> name], set_name(file, syms, s, name))

\* s.load()
Load ==
    \E s \in Held(syms), ok \in BOOLEAN :
        SymStep("load", s, [streamOk |-> ok],
                load(file, syms[s],
                     IF ok THEN Records(syms[s].index)
                     ELSE Malformed(Records(syms[s].index))))

\* s.dims = value
SetDims ==
    \E s \in Held(syms), value \in DimsInputs :
        SymStep("set_dims", s, value, set_dims(syms[s], value))

\* s.data_type = value
SetDataType ==
    \E s \in Held(syms), value \in DataTypeInputs :
        SymStep("set_data_type", s, [value |-> value], set_data_type(syms[s], value))

\* s.variable_type = value
SetVariableType ==
    \E s \in Held(syms), value \in VariableTypeInputs :
        SymStep("set_variable_type", s, [value |-> value],
                SymResult(set_variable_type(syms[s], value), "none",
                          syms[s].data_type # "Variable" /\ value # None, <<>>))

\* s.dataframe = data
SetDataframe ==
    \E s \in Held(syms), data \in DataInputs :
        SymStep("set_dataframe", s, data, set_dataframe(syms[s], data))

\* ---------------------------------------------------------- specifications

NoCall == [op |-> "init", sym |-> None, arg |-> <<>>, err |-> "none", warn |-> FALSE,
           calls |-> <<>>]

\* A newly constructed GdxFile and no symbols; the calls on the file and its
\* symbols' names and loading.
Init ==
    \E lazy_load \in BOOLEAN :
        /\ file = NewFile(lazy_load)
        /\ syms = NoSyms
        /\ pre = [file |-> file, syms |-> syms]
        /\ last = NoCall
        /\ steps = MaxOps

Next ==
    \/ NewSymbol
    \/ Read
    \/ Write
    \/ Insert
    \/ SetItem
    \/ DelItem
    \/ DelName
    \/ Rename
    \/ Load

Spec == Init /\ [][Next]_vars

\* A GdxFile that read the file; the calls on its symbols.
SymInit ==
    \E lazy_load \in BOOLEAN, path \in Paths :
        \E r \in {read(NewFile(lazy_load), NoSyms, path, NoFail, FALSE)} :
            /\ file = r.file
            /\ syms = r.syms
            /\ pre = [file |-> NewFile(lazy_load), syms |-> NoSyms]
            /\ last = [op |-> "read", sym |-> None,
                       arg |-> [path |-> path, fail |-> NoFail], err |-> r.err,
                       warn |-> FALSE, calls |-> r.calls]
            /\ steps = MaxSymOps

SymNext ==
    \/ NewSymbol
    \/ Load
    \/ SetDims
    \/ SetDataType
    \/ SetVariableType
    \/ SetDataframe

SymSpec == SymInit /\ [][SymNext]_vars

\* A GdxFile that read the file; deleting symbols from it and loading them.
LoadInit ==
    \E lazy_load \in BOOLEAN :
        \E r \in {read(NewFile(lazy_load), NoSyms, "in.gdx", NoFail, FALSE)} :
            /\ file = r.file
            /\ syms = r.syms
            /\ pre = [file |-> NewFile(lazy_load), syms |-> NoSyms]
            /\ last = [op |-> "read", sym |-> None,
                       arg |-> [path |-> "in.gdx", fail |-> NoFail], err |-> r.err,
                       warn |-> FALSE, calls |-> r.calls]
            /\ steps = MaxLoadOps

LoadNext ==
    \/ DelItem
    \/ DelName
    \/ Load

LoadSpec == LoadInit /\ [][LoadNext]_vars

\* ------------------------------------------------------------------ claims

\* The symbols at the positions of a file, and their names.
NamesOf(f, ss) == [i \in 1..len(f) |-> ss[f.symbols[i].sym].name]

\* C1: read(path) on a container that holds a symbol fails with Error before
\* any session call and leaves the container and its symbols as they were.
C1_ReadNonEmptyRejected ==
    (last.op = "read" /\ len(pre.file) > 0) =>
        /\ last.err = "Error"
        /\ last.calls = <<>>
        /\ file = pre.file
        /\ syms = pre.syms

\* C1 happens: a read of another path than the one bound, on a file that
\* holds symbols, with a session that would have answered every call.
C1_Witness ==
    /\ last.op = "read"
    /\ len(pre.file) > 0
    /\ last.arg.fail = NoFail
    /\ pre.file.filename # None
    /\ last.arg.path # pre.file.filename

\* C2: write(path) on a container with an unloaded symbol fails with Error,
\* opens no session, invokes no symbol's write and leaves filename alone.
C2_WriteUnloadedRejected ==
    (last.op = "write" /\ ~\A i \in 1..len(pre.file) :
                              pre.syms[pre.file.symbols[i].sym].loaded) =>
        /\ last.err = "Error"
        /\ last.calls = <<>>
        /\ file = pre.file
        /\ syms = pre.syms

\* C2 happens: the first symbol is loaded and a later one is not, the session
\* would have opened, and the path is not the bound one.
C2_Witness ==
    /\ last.op = "write"
    /\ last.arg.openOk
    /\ len(pre.file) > 1
    /\ pre.syms[pre.file.symbols[1].sym].loaded
    /\ \E i \in 2..len(pre.file) : ~pre.syms[pre.file.symbols[i].sym].loaded
    /\ last.arg.path # pre.file.filename

\* C3: a read(path) that fails leaves the (empty) container as it was:
\* filename, version, producer, universal set and symbols.
C3_FailedReadUnchanged ==
    (last.op = "read" /\ last.err # "none" /\ len(pre.file) = 0) =>
        /\ file = pre.file
        /\ syms[UniversalId] = pre.syms[UniversalId]

\* C4: no two positions of the container hold symbols of the same name.
C4_NamesUnique ==
    \A i, j \in 1..len(file) :
        i # j => NamesOf(file, syms)[i] # NamesOf(file, syms)[j]

\* The insert or replacement of a symbol that is not in the container, at a
\* valid key, whose name another position of the container holds.
NameCollision ==
    /\ last.op \in {"insert", "setitem"}
    /\ last.arg.key <= len(pre.file)
    /\ \A i \in 1..len(pre.file) : pre.file.symbols[i].sym # last.sym
    /\ \E i \in 1..len(pre.file) :
          /\ NamesOf(pre.file, pre.syms)[i] = pre.syms[last.sym].name
          /\ (last.op = "setitem" => i # _name_key(pre.file, last.arg.key))

\* C5: inserting or replacing with a symbol whose name another position holds
\* fails and leaves the container as it was.
C5_CollisionRejected ==
    NameCollision => (last.err # "none" /\ file.symbols = pre.file.symbols)

\* C6: the columns of every symbol's table are its domain labels followed by
\* the channel names of its kind.
C6_Columns ==
    \A s \in SymIds :
        syms[s].live =>
            /\ syms[s].columns =
                 syms[s].dims \o
                 (IF syms[s].data_type \in {"Variable", "Equation"}
                  THEN <<"Level", "Marginal", "Lower", "Upper", "Scale">>
                  ELSE <<"Value">>)

\* C7: assigning data_type on a symbol that is not loaded or holds a record
\* fails with Error and changes nothing of the symbol; and no call changes the
\* kind of a symbol whose table holds a row.
C7_DataTypeGuard ==
    /\ (last.op = "set_data_type" /\
        (~pre.syms[last.sym].loaded \/ Len(pre.syms[last.sym].rows) > 0)) =>
           (last.err = "Error" /\ syms = pre.syms)
    /\ \A s \in SymIds :
          (pre.syms[s].live /\ Len(pre.syms[s].rows) > 0) =>
              syms[s].data_type = pre.syms[s].data_type

\* C7 happens: another, valid kind is assigned to a loaded symbol with rows.
C7_Witness ==
    /\ last.op = "set_data_type"
    /\ pre.syms[last.sym].loaded
    /\ Len(pre.syms[last.sym].rows) > 0
    /\ last.arg.value \in GamsDataType
    /\ last.arg.value # pre.syms[last.sym].data_type

\* The dimensionality a dims value asks for.
AskedDims(value) == IF value.kind = "int" THEN value.n ELSE Len(value.labels)

\* C8: assigning dims of another dimensionality (an int or a list of strings)
\* on a loaded symbol with records warns and keeps the rows.
C8_DimsKeepsRows ==
    (/\ last.op = "set_dims"
     /\ last.arg.kind \in {"int", "list"}
     /\ \A i \in 1..Len(last.arg.labels) : string_types(last.arg.labels[i])
     /\ pre.syms[last.sym].loaded
     /\ Len(pre.syms[last.sym].rows) > 0
     /\ AskedDims(last.arg) # num_dims(pre.syms[last.sym])) =>
        /\ last.warn
        /\ syms[last.sym].rows = pre.syms[last.sym].rows

\* C9: load() on a loaded symbol makes no call and changes nothing.
C9_LoadIdempotent ==
    (last.op = "load" /\ pre.syms[last.sym].loaded) =>
        /\ last.err = "none"
        /\ last.calls = <<>>
        /\ syms = pre.syms
        /\ file = pre.file

\* C9 happens: a second load() of a symbol of a lazily read file, whose rows
\* the first load() streamed.
C9_Witness ==
    /\ last.op = "load"
    /\ file.lazy_load
    /\ pre.syms[last.sym].loaded
    /\ pre.syms[last.sym].index > 0
    /\ Len(pre.syms[last.sym].rows) > 0
    /\ Len(pre.syms[last.sym].rows) = Len(Records(pre.syms[last.sym].index))

\* load() was called on an unloaded symbol bound to a non-empty container at
\* a position of the file.
LoadOfBound ==
    /\ last.op = "load"
    /\ ~pre.syms[last.sym].loaded
    /\ pre.syms[last.sym].file # None
    /\ len(pre.file) > 0
    /\ pre.syms[last.sym].index > 0

\* What the session streamed to the last load().
Streamed ==
    IF last.arg.streamOk THEN Records(pre.syms[last.sym].index)
    ELSE Malformed(Records(pre.syms[last.sym].index))

\* The row a record is to become in a table of the given kind.
ExpectedRow(kind, rec) ==
    [j \in 1..Len(rec.elements) |-> <<"str", rec.elements[j]>>] \o
    (CASE kind = "Set" -> << <<"bool", TRUE>> >>
       [] kind \in {"Variable", "Equation"} ->
              << <<"num", rec.values[1]>>, <<"num", rec.values[2]>>,
                 <<"num", rec.values[3]>>, <<"num", rec.values[4]>>,
                 <<"num", rec.values[5]>> >>
       [] OTHER -> << <<"num", rec.values[1]>> >>)

\* The symbol of the last load() is loaded and its table holds the streamed
\* records, one row each, in the order streamed.
LoadedAsStreamed ==
    /\ last.err = "none"
    /\ syms[last.sym].loaded
    /\ Len(syms[last.sym].rows) = Len(Streamed)
    /\ \A i \in 1..Len(Streamed) :
          syms[last.sym].rows[i] =
              ExpectedRow(pre.syms[last.sym].data_type, Streamed[i])

\* C10 as stated, for a well-formed stream: load() on an unloaded bound
\* symbol yields one row per streamed record, in order, and sets loaded.
C10_LoadMatchesStream == (LoadOfBound /\ last.arg.streamOk) => LoadedAsStreamed

\* Every streamed record carries as many domain values as the symbol has
\* domain labels.
StreamFits ==
    \A i \in 1..Len(Streamed) :
        Len(Streamed[i].elements) = num_dims(pre.syms[last.sym])

\* The widest streamed record carries another number of domain values than
\* the symbol has domain labels.
StreamMisfits ==
    /\ Streamed # <<>>
    /\ \E i \in 1..Len(Streamed) :
          /\ \A j \in 1..Len(Streamed) :
                Len(Streamed[j].elements) <= Len(Streamed[i].elements)
          /\ Len(Streamed[i].elements) # num_dims(pre.syms[last.sym])

\* C10 amended: load() on an unloaded bound symbol yields one row per streamed
\* record, in order, and sets loaded, when every streamed record carries as
\* many domain values as the symbol has domain labels; when the widest record
\* carries another number, load() raises and leaves the symbol as it was.
C10_LoadMatchesFittingStream ==
    LoadOfBound =>
        /\ StreamFits => LoadedAsStreamed
        /\ StreamMisfits => (last.err # "none" /\ syms = pre.syms)

\* C10 happens: a Variable with a repeated record and records out of key
\* order is loaded.
C10_Witness ==
    /\ LoadOfBound
    /\ StreamFits
    /\ pre.syms[last.sym].data_type = "Variable"
    /\ Len(Streamed) = 3
    /\ Streamed[1] = Streamed[2]
    /\ syms[last.sym].loaded

\* The symbols the session was handed for storing by some calls: one for each
\* start of a record stream written.
Stored(calls) == SelectSeq(calls, LAMBDA c : c.f = "gdxDataWriteStrStart")

\* C11: after a write of a container whose symbols are all loaded, the session
\* holds every contained symbol, in container order, so that a read of the
\* path yields the same symbols.
C11_RoundTrip ==
    (last.op = "write" /\ last.err = "none") =>
        /\ Len(Stored(last.calls)) = len(file)
        /\ \A i \in 1..len(file) : Stored(last.calls)[i].i = syms[Iter(file)[i]].index

\* The last call was a write() that passed the loaded check and whose session
\* opened for writing.
WriteOpened ==
    /\ last.op = "write"
    /\ last.arg.openOk
    /\ \A i \in 1..len(pre.file) : pre.syms[pre.file.symbols[i].sym].loaded

\* C12: a write() that passes the loaded check opens the session, invokes the
\* write of the universal set, then the write of each contained symbol once
\* and in container order, then closes the session, and nothing else.
C12_WriteOrder ==
    WriteOpened =>
        /\ Len(last.calls) = len(pre.file) + 3
        /\ last.calls[1].f = "gdxOpenWrite"
        /\ last.calls[2].f = "GdxSymbol.write"
        /\ last.calls[2].s = pre.file.universal_set
        /\ \A i \in 1..len(pre.file) :
              /\ last.calls[i + 2].f = "GdxSymbol.write"
              /\ last.calls[i + 2].s = pre.file.symbols[i].sym
        /\ last.calls[Len(last.calls)].f = "gdxClose"

\* The records streamed to the last load() all carry the same number of
\* domain values, as the records of one symbol of a GDX file do.
UniformStream ==
    \A i, j \in 1..Len(Streamed) :
        Len(Streamed[i].elements) = Len(Streamed[j].elements)

\* The symbols the last call loaded: a load() from a uniform stream, or the
\* loads of a read().
JustLoaded ==
    {s \in SymIds : /\ last.op \in {"load", "read"}
                    /\ last.op = "load" => UniformStream
                    /\ ~pre.syms[s].loaded
                    /\ syms[s].loaded
                    /\ syms[s].index > 0}

\* C13: every row load() produces for a Set symbol has the value true in its
\* one value position, after the domain values.
C13_SetRowsTrue ==
    \A s \in JustLoaded :
        syms[s].data_type = "Set" =>
            \A i \in 1..Len(syms[s].rows) :
                /\ Len(syms[s].rows[i]) = num_dims(syms[s]) + 1
                /\ syms[s].rows[i][num_dims(syms[s]) + 1] = <<"bool", TRUE>>

\* C13 happens: load() loaded a Set for which the session streamed a record
\* with a payload of 0 and one with another payload.
C13_Witness ==
    \E s \in JustLoaded :
        /\ last.op = "load"
        /\ syms[s].data_type = "Set"
        /\ Len(syms[s].rows) = Len(Records(syms[s].index))
        /\ \E i, j \in 1..Len(Records(syms[s].index)) :
              /\ Records(syms[s].index)[i].values[1] = 0
              /\ Records(syms[s].index)[j].values[1] # 0

\* C14: load() on an unloaded symbol that holds no container or no position
\* of the file fails, makes no session call and changes nothing; load() on an
\* unloaded symbol that holds its container and a position of the file does
\* not fail before its first session call.
C14_LoadBinding ==
    (last.op = "load" /\ ~pre.syms[last.sym].loaded) =>
        /\ (pre.syms[last.sym].file = None \/ pre.syms[last.sym].index <= 0) =>
               (last.err # "none" /\ last.calls = <<>> /\ syms = pre.syms)
        /\ (pre.syms[last.sym].file # None /\ pre.syms[last.sym].index > 0) =>
               (last.err = "none" \/ last.calls # <<>>)

\* The last call assigned variable_type on a symbol of the given kinds.
SubtypeAssigned(kinds) ==
    /\ last.op = "set_variable_type"
    /\ pre.syms[last.sym].data_type \in kinds

\* C15 as stated: on a Variable, assigning an invalid or missing subtype
\* leaves the subtype Free; on any other kind, assigning any subtype leaves
\* it none and does not raise.
C15_InvalidGivesFree ==
    /\ (SubtypeAssigned({"Variable"}) /\ last.arg.value \notin GamsVariableType) =>
           syms[last.sym].variable_type = "Free"
    /\ SubtypeAssigned(GamsDataType \ {"Variable"}) =>
           (syms[last.sym].variable_type = None /\ last.err = "none")

\* C15 amended: on a Variable, assigning an invalid or missing subtype leaves
\* the subtype the symbol holds, and gives Free only to a symbol that holds
\* none (a symbol that data_type just made a Variable); on any other kind,
\* assigning any subtype leaves it none and does not raise.
C15_InvalidKeepsSubtype ==
    /\ (SubtypeAssigned({"Variable"}) /\ last.arg.value \notin GamsVariableType) =>
           /\ last.err = "none"
           /\ syms[last.sym].variable_type =
                  (IF pre.syms[last.sym].variable_type \in GamsVariableType
                   THEN pre.syms[last.sym].variable_type ELSE "Free")
    /\ (last.op = "set_data_type" /\ last.err = "none" /\
        syms[last.sym].data_type = "Variable") =>
           syms[last.sym].variable_type =
               (IF pre.syms[last.sym].data_type = "Variable"
                THEN pre.syms[last.sym].variable_type ELSE "Free")
    /\ SubtypeAssigned(GamsDataType \ {"Variable"}) =>
           (syms[last.sym].variable_type = None /\ last.err = "none")

\* C15 happens: an invalid subtype is assigned to a Variable that holds
\* another subtype than Free.
C15_Witness ==
    /\ SubtypeAssigned({"Variable"})
    /\ last.arg.value = "Invalid"
    /\ pre.syms[last.sym].variable_type \in GamsVariableType \ {"Free"}

\* The positions at which a lookup of the container by a name finds a symbol:
\* the positions whose key is the name.
Lookup(f, name) == {i \in 1..len(f) : f.symbols[i].key = name}

\* C16: after a replacement by position and after a rename of a contained
\* symbol, looking the container up by the name of the symbol at a position
\* finds that position, and every key that resolves is the name of the symbol
\* it resolves to.
C16_NameIndexConsistent ==
    ((last.op = "setitem" /\ last.arg.key < len(pre.file)) \/
     (last.op = "rename" /\ \E i \in 1..len(pre.file) :
                                pre.file.symbols[i].sym = last.sym)) =>
        \A i \in 1..len(file) :
            /\ i \in Lookup(file, syms[file.symbols[i].sym].name)
            /\ file.symbols[i].key = syms[file.symbols[i].sym].name

\* The last call was an insert or a replacement, by an integer position, of a
\* symbol whose name the container does not hold.
PositionedNewName ==
    /\ last.op \in {"insert", "setitem"}
    /\ \A i \in 1..len(pre.file) :
          /\ pre.file.symbols[i].key # pre.syms[last.sym].name
          /\ NamesOf(pre.file, pre.syms)[i] # pre.syms[last.sym].name

\* C17: an insert or replacement at the position len(container) appends the
\* symbol; at a position greater than that, or below -len(container), it
\* fails and leaves the symbols of the container as they were.
C17_PositionChecked ==
    PositionedNewName =>
        /\ last.arg.key = len(pre.file) =>
               /\ last.err = "none"
               /\ file.symbols =
                      Append(pre.file.symbols,
                             [key |-> pre.syms[last.sym].name, sym |-> last.sym])
        /\ (last.arg.key > len(pre.file) \/ last.arg.key < -len(pre.file)) =>
               /\ last.err # "none"
               /\ file.symbols = pre.file.symbols

\* C18: every symbol whose write() a write() of the container invokes, the
\* universal set included, is loaded.
C18_WrittenAreLoaded ==
    last.op = "write" =>
        \A k \in 1..Len(last.calls) :
            last.calls[k].f = "GdxSymbol.write" =>
                /\ pre.syms[last.calls[k].s].live
                /\ pre.syms[last.calls[k].s].loaded

\* C18 happens: a container that read a file and loaded every symbol is
\* written: the universal set and three symbols with their records.
C18_Witness ==
    /\ last.op = "write"
    /\ last.err = "none"
    /\ len(file) = symbol_count
    /\ \E k \in 1..Len(last.calls) : last.calls[k] = WriteCall(file.universal_set)
    /\ \A i \in 2..len(file) :
          /\ \E k \in 1..Len(last.calls) : last.calls[k] = WriteCall(Iter(file)[i])
          /\ Len(syms[Iter(file)[i]].rows) = Len(Records(syms[Iter(file)[i]].index))
          /\ Len(syms[Iter(file)[i]].rows) > 0

\* The session calls among some calls.
SessionCalls(calls) == SelectSeq(calls, LAMBDA c : c.f # "GdxSymbol.write")

\* C19: when a write() has opened the session for writing, closing it is the
\* last session call the write() makes, however the write() ends.
C19_WriteCloses ==
    (/\ last.op = "write"
     /\ last.arg.openOk
     /\ last.calls # <<>>
     /\ last.calls[1].f = "gdxOpenWrite") =>
        SessionCalls(last.calls)[Len(SessionCalls(last.calls))].f = "gdxClose"

\* C20: a symbol holds no variable subtype exactly when its kind is not
\* Variable, and a Variable holds one of the enumerated subtypes.
C20_SubtypeIffVariable ==
    \A s \in SymIds :
        syms[s].live =>
            /\ (syms[s].variable_type = None) <=> (syms[s].data_type # "Variable")
            /\ syms[s].data_type = "Variable" =>
                   syms[s].variable_type \in GamsVariableType

\* C20 happens: a data_type assignment made a Variable of a symbol of another
\* kind, or a symbol of another kind of a Variable.
C20_Witness ==
    /\ last.op = "set_data_type"
    /\ last.err = "none"
    /\ pre.syms[last.sym].data_type # syms[last.sym].data_type
    /\ "Variable" \in {pre.syms[last.sym].data_type, syms[last.sym].data_type}

====
